---- MODULE Spec2Model ----
(***************************************************************************)
(* Windows-Downdate: the downgrade-crafting engine.                        *)
(*                                                                         *)
(*   src/windows_downdate/manifest_utils.py   class Manifest               *)
(*   src/windows_downdate.py                  parse_config_xml,            *)
(*                                            craft_downgrade_xml, main    *)
(*                                                                         *)
(* Three specifications share the module:                                  *)
(*   SpecExpand    Manifest.expand_manifest_path_variables                 *)
(*   SpecManifest  one Manifest instance and its lazily cached accessors   *)
(*   SpecMain      parse_config_xml, craft_downgrade_xml and main          *)
(*                                                                         *)
(* Text (paths, attribute values) is a sequence of lexemes: the            *)
(* punctuation the code scans for ("$", "(", ")", "%", "\\") one lexeme    *)
(* each, every other run of characters one lexeme.  Bytes are numbers.     *)
(* An optional value (Python None) is None, a present one Some(v).         *)
(***************************************************************************)
EXTENDS Naturals, Sequences, FiniteSets, TLC

VARIABLES
    \* ---- expand_manifest_path_variables
    package_variables,  \* Manifest.PACKAGE_VARIABLES, the class-level dict
    environ,            \* os.environ: the live environment
    str_to_expand,      \* the argument, as the segments it was built from
    expanded,           \* None, or Some(the returned text)
    \* ---- one Manifest instance
    archive,            \* the bytes read_file finds at _manifest_path
    delta_output,       \* what apply_delta makes of this manifest's patch
    xml_output,         \* what load_xml_from_buffer makes of its document
    _manifest_buffer,
    _manifest_xml,
    _manifest_files,
    stack,              \* the Python call stack, innermost frame last
    retval,             \* the value the last return handed to its caller
    log,                \* how each finished call of the client ended
    n_read,             \* calls of read_file
    n_delta,            \* calls of apply_delta
    n_parse,            \* calls of load_xml_from_buffer
    n_extract,          \* runs of the file-declaration loop
    \* ---- windows_downdate.py
    disk,               \* what main finds on the machine it runs on
    pc,                 \* main's next line
    args,               \* the argparse.Namespace
    update_files,
    downgrade_xml,
    downgrade_xml_path,
    storage,            \* queue documents written to persistent storage
    trace,              \* main's calls of its collaborators, in order
    error,              \* the exception that ended main, or "none"
    parsed,             \* a direct call of parse_config_xml: input and outcome
    crafted             \* a direct call of craft_downgrade_xml: input and outcome

expandVars == <<package_variables, environ, str_to_expand, expanded>>
manifestVars == <<archive, delta_output, xml_output, _manifest_buffer,
                  _manifest_xml, _manifest_files, stack, retval, log,
                  n_read, n_delta, n_parse, n_extract>>
mainVars == <<disk, pc, args, update_files, downgrade_xml, downgrade_xml_path,
              storage, trace, error, parsed, crafted>>
vars == <<expandVars, manifestVars, mainVars>>

None == <<>>
Some(v) == <<v>>

(***************************************************************************)
(* Bounds of the model.                                                    *)
(***************************************************************************)
MaxSegments == 3    \* segments of an argument of expand_manifest_path_variables
MaxTail == 2        \* bytes of an archived manifest after its first bytes
MaxElements == 2    \* file declarations of a manifest document
MaxCalls == 2       \* calls a client makes on one Manifest instance
MaxDepth == 8       \* frames the interpreter allows before RecursionError
MaxRequests == 2    \* UpdateFile entries of a config document or of a list

(***************************************************************************)
(* Sequences.                                                              *)
(***************************************************************************)
RECURSIVE Flatten(_)
Flatten(ss) == IF ss = <<>> THEN <<>> ELSE Head(ss) \o Flatten(Tail(ss))

RECURSIVE SeqsUpTo(_, _)
SeqsUpTo(S, n) ==
    IF n = 0 THEN {<<>>}
    ELSE SeqsUpTo(S, n - 1)
         \cup {Append(s, x) : s \in {t \in SeqsUpTo(S, n - 1) : Len(t) = n - 1}, x \in S}

\* The first index >= from at which s holds c, or 0.
RECURSIVE IndexFrom(_, _, _)
IndexFrom(s, c, from) ==
    IF from > Len(s) THEN 0
    ELSE IF s[from] = c THEN from
    ELSE IndexFrom(s, c, from + 1)

StartsWith(s, prefix) ==
    /\ Len(s) >= Len(prefix)
    /\ SubSeq(s, 1, Len(prefix)) = prefix

(***************************************************************************)
(* Manifest.PACKAGE_VARIABLES (manifest_utils.py 21-39).                   *)
(***************************************************************************)
PACKAGE_VARIABLES ==
    [n \in {"runtime.programfilesx86", "runtime.help", "runtime.bootdrive",
            "runtime.systemroot", "runtime.inf", "runtime.commonfiles",
            "runtime.windows", "runtime.public", "runtime.system",
            "runtime.programdata", "runtime.wbem", "runtime.startmenu",
            "runtime.fonts", "runtime.windir", "runtime.system32",
            "runtime.programfiles", "runtime.drivers"} |->
      CASE n = "runtime.programfilesx86" -> <<"%", "ProgramFiles(x86)", "%">>
        [] n = "runtime.help" -> <<"%", "SystemRoot", "%", "\\", "Help">>
        [] n = "runtime.bootdrive" -> <<"%", "SystemDrive", "%">>
        [] n = "runtime.systemroot" -> <<"%", "SystemRoot", "%">>
        [] n = "runtime.inf" -> <<"%", "SystemRoot", "%", "\\", "INF">>
        [] n = "runtime.commonfiles" -> <<"%", "CommonProgramFiles", "%">>
        [] n = "runtime.windows" -> <<"%", "SystemRoot", "%">>
        [] n = "runtime.public" -> <<"%", "Public", "%">>
        [] n = "runtime.system" -> <<"%", "SystemRoot", "%", "\\", "System">>
        [] n = "runtime.programdata" -> <<"%", "ProgramData", "%">>
        [] n = "runtime.wbem" ->
               <<"%", "SystemRoot", "%", "\\", "System32", "\\", "wbem">>
        [] n = "runtime.startmenu" ->
               <<"%", "ProgramData", "%", "\\", "Microsoft", "\\", "Windows",
                 "\\", "Start Menu">>
        [] n = "runtime.fonts" -> <<"%", "SystemRoot", "%", "\\", "Fonts">>
        [] n = "runtime.windir" -> <<"%", "SystemRoot", "%">>
        [] n = "runtime.system32" -> <<"%", "SystemRoot", "%", "\\", "System32">>
        [] n = "runtime.programfiles" -> <<"%", "ProgramFiles", "%">>
        [] n = "runtime.drivers" ->
               <<"%", "SystemRoot", "%", "\\", "System32", "\\", "Drivers">>]

(***************************************************************************)
(* str.lower() on one lexeme: the lexemes of the model that hold an        *)
(* upper-case letter, each with its lower-case form.                       *)
(***************************************************************************)
Lower(w) ==
    CASE w = "Runtime.System32" -> "runtime.system32"
      [] w = "RUNTIME.WINDIR" -> "runtime.windir"
      [] w = "Bogus.Var" -> "bogus.var"
      [] w = "SystemRoot" -> "systemroot"
      [] w = "ProgramData" -> "programdata"
      [] OTHER -> w

(***************************************************************************)
(* re.sub(r'\$\(([^)]+)\)', replace, str_to_expand)                        *)
(* (manifest_utils.py 97-104).                                             *)
(***************************************************************************)
\* The index of the ")" that ends a match of the pattern starting at i, or 0:
\* "$", "(", one or more lexemes other than ")", then ")".
MatchEnd(s, i) ==
    IF s[i] = "$" /\ i + 1 <= Len(s) /\ s[i + 1] = "("
    THEN LET close == IndexFrom(s, ")", i + 2)
         IN  IF close > i + 2 THEN close ELSE 0
    ELSE 0

\* replace(match), lines 99-102: group(1) lower-cased is looked up in the
\* table, the whole match is the default.
\* replace(match) looking group(1) up as spelled, without .lower().
ReplaceLowerMissing(full_name, table) ==
    LET group1 == SubSeq(full_name, 3, Len(full_name) - 1)
    IN  IF Len(group1) = 1 /\ group1[1] \in DOMAIN table
        THEN table[group1[1]]
        ELSE full_name

Replace(full_name, table) ==
    LET group1 == SubSeq(full_name, 3, Len(full_name) - 1)
        variable_name == [k \in 1..Len(group1) |-> Lower(group1[k])]
    IN  IF Len(variable_name) = 1 /\ variable_name[1] \in DOMAIN table
        THEN table[variable_name[1]]
        ELSE full_name

RECURSIVE ReSubFrom(_, _, _)
ReSubFrom(s, i, table) ==
    IF i > Len(s) THEN <<>>
    ELSE LET close == MatchEnd(s, i)
         IN  IF close = 0
             THEN <<s[i]>> \o ReSubFrom(s, i + 1, table)
             ELSE Replace(SubSeq(s, i, close), table) \o ReSubFrom(s, close + 1, table)

(***************************************************************************)
(* os.path.expandvars (manifest_utils.py 105), as ntpath defines it: the   *)
(* program runs on Windows.  "%%" is one "%"; "%name%" is the value of     *)
(* name, or itself when the environment has no such name; a "%" with no    *)
(* closing "%" ends the scan and the rest is copied; "$$" is one "$";      *)
(* "$name" is the value of name, or itself; a "$" before anything that     *)
(* is no name, such as "(", stays.                                         *)
(***************************************************************************)
\* The lexemes made of name characters only (letters, digits, "_", "-").
NameLexemes == {"SystemRoot", "ProgramData", "System32", "Help", "INF", "Fonts"}

RECURSIVE ExpandVarsFrom(_, _, _)
ExpandVarsFrom(path, index, env) ==
    IF index > Len(path) THEN <<>>
    ELSE LET c == path[index]
             next == IF index < Len(path) THEN Some(path[index + 1]) ELSE None
         IN
         IF c = "%"
         THEN IF next = Some("%")
              THEN <<"%">> \o ExpandVarsFrom(path, index + 2, env)
              ELSE LET close == IndexFrom(path, "%", index + 1)
                   IN  IF close = 0
                       THEN SubSeq(path, index, Len(path))
                       ELSE LET var == SubSeq(path, index + 1, close - 1)
                            IN  (IF Len(var) = 1 /\ var[1] \in DOMAIN env
                                 THEN env[var[1]]
                                 ELSE SubSeq(path, index, close))
                                \o ExpandVarsFrom(path, close + 1, env)
         ELSE IF c = "$"
         THEN IF next = Some("$")
              THEN <<"$">> \o ExpandVarsFrom(path, index + 2, env)
              ELSE IF next # None /\ next[1] \in NameLexemes
              THEN (IF next[1] \in DOMAIN env THEN env[next[1]] ELSE <<"$", next[1]>>)
                   \o ExpandVarsFrom(path, index + 2, env)
              ELSE <<"$">> \o ExpandVarsFrom(path, index + 1, env)
         ELSE <<c>> \o ExpandVarsFrom(path, index + 1, env)

ExpandVars(path, env) == ExpandVarsFrom(path, 1, env)

\* Manifest.expand_manifest_path_variables (manifest_utils.py 95-105).
expand_manifest_path_variables(s, table, env) ==
    ExpandVars(ReSubFrom(s, 1, table), env)

(***************************************************************************)
(* The arguments of expand_manifest_path_variables the model draws: a      *)
(* sequence of segments, each a $(name) token or a piece of literal text.  *)
(***************************************************************************)
TokenNames ==
    { <<"runtime.system32">>, <<"Runtime.System32">>, <<"RUNTIME.WINDIR">>,
      <<"bogus.var">>, <<"%", "SystemRoot", "%">> }
Literals == { <<"\\">>, <<"foo.dll">>, <<"%">>, <<")">> }
Segments ==
    [tok : {TRUE}, text : TokenNames] \cup [tok : {FALSE}, text : Literals]

SegmentText(seg) ==
    IF seg.tok THEN <<"$", "(">> \o seg.text \o <<")">> ELSE seg.text

TextOf(segs) == Flatten([k \in 1..Len(segs) |-> SegmentText(segs[k])])

\* The environments: each of these names is set to its value, or not set.
EnvValues ==
    [n \in {"SystemRoot", "ProgramData"} |->
        IF n = "SystemRoot" THEN <<"C:", "\\", "Windows">>
                            ELSE <<"C:", "\\", "ProgramData">>]
Environments ==
    {[n \in D |-> EnvValues[n]] : D \in SUBSET DOMAIN EnvValues}
DefaultEnviron == [n \in DOMAIN EnvValues |-> EnvValues[n]]

(***************************************************************************)
(* One Manifest instance (manifest_utils.py 13-93).                        *)
(***************************************************************************)
DCM_HEADER == <<68, 67, 77, 1>>     \* b"DCM\x01"
BASE_MANIFEST == <<60, 98, 62>>     \* get_wcp_base_manifest(), line 15

\* The archived bytes the model draws: the first k bytes of the differential
\* marker (k = 0: none of it, k = 4: all of it), then j more bytes.
RawBuffers ==
    { SubSeq(DCM_HEADER, 1, k) \o [i \in 1..j |-> 60] :
        k \in 0..Len(DCM_HEADER), j \in 0..MaxTail }

\* apply_delta raises, or hands back an output buffer.
DeltaFailed == [ok |-> FALSE, bytes |-> <<>>]
DeltaOutcomes ==
    {DeltaFailed} \cup { [ok |-> TRUE, bytes |-> [i \in 1..j |-> 62]] : j \in 0..MaxTail }

\* A file declaration of a manifest document: each attribute present or not.
FileElements ==
    [ destinationPath : {None, Some(<<"$", "(", "runtime.system32", ")", "\\">>)},
      name : {None, Some("a.dll"), Some("b.dll")} ]
Documents == SeqsUpTo(FileElements, MaxElements)

\* load_xml_from_buffer raises, or hands back the parsed document.
XmlFailed == [ok |-> FALSE, doc |-> <<>>]
XmlOutcomes == {XmlFailed} \cup { [ok |-> TRUE, doc |-> d] : d \in Documents }

\* read_file(self._manifest_path): the archive is a read-only store.
read_file == archive

\* apply_delta(DELTA_FLAG_NONE, base, patch): a deterministic function of its
\* arguments; delta_output is its value on this manifest's patch against the
\* base manifest, and any other bytes are no patch of that base.
apply_delta(base, patch) ==
    IF base = BASE_MANIFEST /\ patch = SubSeq(archive, Len(DCM_HEADER) + 1, Len(archive))
    THEN delta_output
    ELSE DeltaFailed

\* load_xml_from_buffer(buffer): xml_output is its value on this manifest's
\* document bytes; no bytes, and bytes that still carry the differential
\* marker, are not a well-formed document.
load_xml_from_buffer(buffer) ==
    IF buffer = <<>> \/ StartsWith(buffer, DCM_HEADER) THEN XmlFailed ELSE xml_output

\* `not x` on the three cached fields: None and the empty bytes / the empty
\* list are falsy; an ElementTree object is always truthy.
FalsyOnlyNone(field) == field = None
Falsy(field) == field = None \/ field[1] = <<>>

\* os.path.normpath on the joined path: runs of separators collapse and a
\* trailing separator goes.
RECURSIVE NormPath(_)
NormPath(p) ==
    IF p = <<>> THEN <<>>
    ELSE IF Head(p) = "\\" /\ (Len(p) = 1 \/ p[2] = "\\") THEN NormPath(Tail(p))
    ELSE <<Head(p)>> \o NormPath(Tail(p))

\* The loop of get_manifest_files, lines 65-75, over the file declarations
\* left to visit: get_element_attribute raises XmlElementAttributeNotFound
\* on an absent attribute and the except clause goes on to the next one.
\* The loop leaving at the first declaration that lacks an attribute.
RECURSIVE FileLoopStopAtMissing(_, _, _)
FileLoopStopAtMissing(elements, files, env) ==
    IF elements = <<>> THEN files
    ELSE LET file_element == Head(elements)
         IN  IF file_element.destinationPath = None \/ file_element.name = None
             THEN files
             ELSE FileLoopStopAtMissing(Tail(elements),
                    Append(files, NormPath(
                        expand_manifest_path_variables(
                            file_element.destinationPath[1], package_variables, env)
                        \o <<"\\", file_element.name[1]>>)), env)

RECURSIVE FileLoop(_, _, _)
FileLoop(elements, files, env) ==
    IF elements = <<>> THEN files
    ELSE LET file_element == Head(elements)
         IN  IF file_element.destinationPath = None
             THEN FileLoop(Tail(elements), files, env)              \* line 67 raised
             ELSE LET update_dir_path_exp ==
                          expand_manifest_path_variables(
                              file_element.destinationPath[1], package_variables, env)
                  IN  IF file_element.name = None
                      THEN FileLoop(Tail(elements), files, env)     \* line 69 raised
                      ELSE FileLoop(Tail(elements),
                             Append(files, NormPath(update_dir_path_exp
                                        \o <<"\\", file_element.name[1]>>)), env)

\* ---- the call stack
Accessors == {"get_manifest_files", "get_manifest_xml", "get_manifest_buffer"}

NoValue == [kind |-> "none", bytes |-> <<>>, flag |-> FALSE, doc |-> <<>>, files |-> <<>>]
Bytes(b) == [NoValue EXCEPT !.kind = "bytes", !.bytes = b]
Flag(f) == [NoValue EXCEPT !.kind = "bool", !.flag = f]
Doc(d) == [NoValue EXCEPT !.kind = "xml", !.doc = d]
Files(l) == [NoValue EXCEPT !.kind = "files", !.files = l]

Top == stack[Len(stack)]
Running(fn) == stack # <<>> /\ Top.fn = fn

\* return v: the frame goes; a call of the client ends in the log.
Return(v) ==
    /\ stack' = SubSeq(stack, 1, Len(stack) - 1)
    /\ retval' = v
    /\ log' = IF Len(stack) = 1
              THEN Append(log, [fn |-> Top.fn, raised |-> "none", value |-> v])
              ELSE log

\* raise: none of these frames catches it, the client's call ends with it.
Raise(exception) ==
    /\ stack' = <<>>
    /\ retval' = NoValue
    /\ log' = Append(log, [fn |-> stack[1].fn, raised |-> exception, value |-> NoValue])

\* A call: the caller waits at `resume`; the interpreter raises
\* RecursionError when the stack is full.
Invoke(callee, resume) ==
    IF Len(stack) >= MaxDepth
    THEN Raise("RecursionError")
    ELSE /\ stack' = Append([stack EXCEPT ![Len(stack)].at = resume],
                            [fn |-> callee, at |-> "start"])
         /\ retval' = NoValue
         /\ UNCHANGED log

\* The client calls an accessor of the instance.
Call ==
    /\ UNCHANGED <<expandVars, mainVars>>
    /\ stack = <<>>
    /\ Len(log) < MaxCalls
    /\ \E fn \in Accessors : stack' = <<[fn |-> fn, at |-> "start"]>>
    /\ retval' = NoValue
    /\ UNCHANGED <<archive, delta_output, xml_output, _manifest_buffer, _manifest_xml,
                   _manifest_files, log, n_read, n_delta, n_parse, n_extract>>

\* get_manifest_buffer, lines 54-59.
get_manifest_buffer ==
    /\ UNCHANGED <<expandVars, mainVars>>
    /\ Running("get_manifest_buffer")
    /\ UNCHANGED <<archive, delta_output, xml_output, _manifest_xml, _manifest_files,
                   n_delta, n_parse, n_extract>>
    /\ CASE Top.at = "start" ->
              IF Falsy(_manifest_buffer)
              THEN /\ _manifest_buffer' = Some(read_file)               \* line 56
                   /\ n_read' = n_read + 1
                   /\ Invoke("_is_manifest_diff_type", "line57")
              ELSE /\ UNCHANGED <<_manifest_buffer, n_read>>
                   /\ Return(Bytes(_manifest_buffer[1]))                \* line 59
         [] Top.at = "line57" ->
              /\ UNCHANGED <<_manifest_buffer, n_read>>
              /\ IF retval.flag
                 THEN Invoke("_decompress_manifest", "line58")
                 ELSE Return(Bytes(_manifest_buffer[1]))
         [] Top.at = "line58" ->
              /\ _manifest_buffer' = Some(retval.bytes)
              /\ UNCHANGED n_read
              /\ Return(Bytes(retval.bytes))

\* _is_manifest_diff_type, lines 91-93.
_is_manifest_diff_type ==
    /\ UNCHANGED <<expandVars, mainVars>>
    /\ Running("_is_manifest_diff_type")
    /\ UNCHANGED <<archive, delta_output, xml_output, _manifest_buffer, _manifest_xml,
                   _manifest_files, n_read, n_delta, n_parse, n_extract>>
    /\ CASE Top.at = "start" -> Invoke("get_manifest_buffer", "line93")
         [] Top.at = "line93" -> Return(Flag(StartsWith(retval.bytes, DCM_HEADER)))

\* manifest_buffer[4:], line 87.
WithoutDcm(manifest_buffer) == SubSeq(manifest_buffer, 5, Len(manifest_buffer))

\* _decompress_manifest, lines 85-89.
_decompress_manifest ==
    /\ UNCHANGED <<expandVars, mainVars>>
    /\ Running("_decompress_manifest")
    /\ UNCHANGED <<archive, delta_output, xml_output, _manifest_buffer, _manifest_xml,
                   _manifest_files, n_read, n_parse, n_extract>>
    /\ CASE Top.at = "start" ->
              /\ Invoke("get_manifest_buffer", "line87")
              /\ UNCHANGED n_delta
         [] Top.at = "line87" ->
              LET manifest_delta_output_obj ==
                      apply_delta(BASE_MANIFEST, WithoutDcm(retval.bytes))
              IN  /\ n_delta' = n_delta + 1
                  /\ IF manifest_delta_output_obj.ok
                     THEN Return(Bytes(manifest_delta_output_obj.bytes))
                     ELSE Raise("DeltaError")

\* get_manifest_xml, lines 48-52.
get_manifest_xml ==
    /\ UNCHANGED <<expandVars, mainVars>>
    /\ Running("get_manifest_xml")
    /\ UNCHANGED <<archive, delta_output, xml_output, _manifest_buffer, _manifest_files,
                   n_read, n_delta, n_extract>>
    /\ CASE Top.at = "start" ->
              /\ UNCHANGED <<_manifest_xml, n_parse>>
              /\ IF FalsyOnlyNone(_manifest_xml)
                 THEN Invoke("get_manifest_buffer", "line51")
                 ELSE Return(Doc(_manifest_xml[1]))
         [] Top.at = "line51" ->
              LET loaded == load_xml_from_buffer(retval.bytes)
              IN  /\ n_parse' = n_parse + 1
                  /\ IF loaded.ok
                     THEN /\ _manifest_xml' = Some(loaded.doc)
                          /\ Return(Doc(loaded.doc))
                     ELSE /\ UNCHANGED _manifest_xml
                          /\ Raise("ParseError")

\* get_manifest_files, lines 61-77.
get_manifest_files ==
    /\ UNCHANGED <<expandVars, mainVars>>
    /\ Running("get_manifest_files")
    /\ UNCHANGED <<archive, delta_output, xml_output, _manifest_buffer, _manifest_xml,
                   n_read, n_delta, n_parse>>
    /\ CASE Top.at = "start" ->
              /\ UNCHANGED n_extract
              /\ IF Falsy(_manifest_files)
                 THEN /\ _manifest_files' = Some(<<>>)                  \* line 63
                      /\ Invoke("get_manifest_xml", "line65")
                 ELSE /\ UNCHANGED _manifest_files
                      /\ Return(Files(_manifest_files[1]))
         [] Top.at = "line65" ->
              LET files == FileLoop(retval.doc, _manifest_files[1], environ)
              IN  /\ n_extract' = n_extract + 1
                  /\ _manifest_files' = Some(files)
                  /\ Return(Files(files))

ManifestInit ==
    /\ archive \in RawBuffers
    /\ delta_output \in (IF StartsWith(archive, DCM_HEADER) THEN DeltaOutcomes ELSE {DeltaFailed})
    /\ xml_output \in XmlOutcomes
    /\ _manifest_buffer = None          \* __init__, lines 44-46
    /\ _manifest_xml = None
    /\ _manifest_files = None
    /\ stack = <<>>
    /\ retval = NoValue
    /\ log = <<>>
    /\ n_read = 0
    /\ n_delta = 0
    /\ n_parse = 0
    /\ n_extract = 0

ManifestIdle ==
    /\ archive = <<>>
    /\ delta_output = DeltaFailed
    /\ xml_output = XmlFailed
    /\ _manifest_buffer = None
    /\ _manifest_xml = None
    /\ _manifest_files = None
    /\ stack = <<>>
    /\ retval = NoValue
    /\ log = <<>>
    /\ n_read = 0
    /\ n_delta = 0
    /\ n_parse = 0
    /\ n_extract = 0

ManifestNext ==
    \/ Call
    \/ get_manifest_buffer
    \/ _is_manifest_diff_type
    \/ _decompress_manifest
    \/ get_manifest_xml
    \/ get_manifest_files

(***************************************************************************)
(* Calls of expand_manifest_path_variables on drawn arguments.             *)
(***************************************************************************)
ExpandInit ==
    /\ package_variables = PACKAGE_VARIABLES
    /\ environ \in Environments
    /\ str_to_expand \in SeqsUpTo(Segments, MaxSegments)
    /\ expanded = None

ExpandIdle ==
    /\ package_variables = PACKAGE_VARIABLES
    /\ environ = DefaultEnviron
    /\ str_to_expand = <<>>
    /\ expanded = None

Expand ==
    /\ expanded = None
    /\ expanded' = Some(expand_manifest_path_variables(
                            TextOf(str_to_expand), package_variables, environ))
    /\ UNCHANGED <<package_variables, environ, str_to_expand>>
    /\ UNCHANGED <<manifestVars, mainVars>>

(***************************************************************************)
(* windows_downdate.py.  The machine main runs on: the live files and      *)
(* their contents, and the component store's oldest version of a file.     *)
(***************************************************************************)
DOWNGRADE_XML_PATH == "resources\\Downgrade.xml"      \* line 18

\* The live filesystem: a path's content, or "absent".
FileContents ==
    [p \in {"sys.dll", "copy.dll", "old.dll", "store.dll", "gone.dll"} |->
        CASE p = "sys.dll" -> "B"
          [] p = "copy.dll" -> "B"
          [] p = "old.dll" -> "A"
          [] p = "store.dll" -> "A"
          [] p = "gone.dll" -> "absent"]
ExistingFiles == {p \in DOMAIN FileContents : FileContents[p] # "absent"}

\* The component store: the archived oldest version of a destination, for
\* the destinations a component owns.
OldestInStore == [p \in {"sys.dll"} |-> "store.dll"]

\* A replacement request of a config document, and the documents drawn.
Requests ==
    [destination : {"sys.dll", "copy.dll", "gone.dll"},
     source : {"old.dll", "sys.dll", "gone.dll"}]
Configs == SeqsUpTo(Requests, MaxRequests)

\* UpdateFile(source, destination, should_retrieve_oldest, is_oldest_retrieved).
UpdateFile(source, destination, should_retrieve_oldest) ==
    [source |-> source, destination |-> destination,
     should_retrieve_oldest |-> should_retrieve_oldest, is_oldest_retrieved |-> FALSE]

\* The lists a direct call of craft_downgrade_xml is given: files that exist.
UpdateFileLists ==
    SeqsUpTo({UpdateFile(s, d, FALSE) : s \in ExistingFiles, d \in ExistingFiles},
             MaxRequests)

\* is_path_exists(path) on the machine d.
is_path_exists(d, path) ==
    CASE path = "Config.xml" -> d.config_xml # None
      [] path = "Pending.xml" -> d.custom_pending_xml
      [] OTHER -> path \in ExistingFiles

\* is_file_contents_equal(a, b): both files read and compared byte for byte.
is_file_contents_equal(a, b) == FileContents[a] = FileContents[b]

\* parse_config_xml, lines 59-84, on the requests of the loaded document:
\* the loop from request i on, update_files being the list so far.
\* The loop passing over a request whose destination does not exist.
RECURSIVE ParseLoopSkipMissing(_, _, _, _)
ParseLoopSkipMissing(d, config_xml, i, list) ==
    IF i > Len(config_xml) THEN [raised |-> "none", update_files |-> list]
    ELSE IF ~is_path_exists(d, config_xml[i].destination)
         THEN ParseLoopSkipMissing(d, config_xml, i + 1, list)
         ELSE ParseLoopSkipMissing(d, config_xml, i + 1,
                  Append(list, UpdateFile(config_xml[i].source, config_xml[i].destination,
                                          ~is_path_exists(d, config_xml[i].source))))

RECURSIVE ParseLoop(_, _, _, _)
ParseLoop(d, config_xml, i, list) ==
    IF i > Len(config_xml) THEN [raised |-> "none", update_files |-> list]      \* line 84
    ELSE LET destination_file == config_xml[i].destination
             source_file == config_xml[i].source
         IN  IF ~is_path_exists(d, destination_file)
             THEN [raised |-> "FileNotFoundError", update_files |-> <<>>]        \* line 70
             ELSE ParseLoop(d, config_xml, i + 1,
                      Append(list, UpdateFile(source_file, destination_file,
                                              ~is_path_exists(d, source_file))))

parse_config_xml(d, config_xml) == ParseLoop(d, config_xml, 1, <<>>)

\* retrieve_oldest_files_for_update_files(update_files): every UpdateFile
\* marked should_retrieve_oldest gets, in place, the component store's oldest
\* version of its destination as its source; a manifest that fails to decode
\* and a destination no component owns are fatal.
retrieve_oldest_files_for_update_files(d, list) ==
    LET needy == {k \in 1..Len(list) : list[k].should_retrieve_oldest}
    IN  IF needy = {} THEN [raised |-> "none", update_files |-> list]
        ELSE IF ~d.store_ok THEN [raised |-> "DeltaError", update_files |-> list]
        ELSE IF \E k \in needy : list[k].destination \notin DOMAIN OldestInStore
        THEN [raised |-> "UnresolvableSource", update_files |-> list]
        ELSE [raised |-> "none",
              update_files |->
                [k \in 1..Len(list) |->
                    IF k \in needy
                    THEN [list[k] EXCEPT !.source = OldestInStore[list[k].destination],
                                         !.is_oldest_retrieved = TRUE]
                    ELSE list[k]]]

\* get_empty_pending_xml(): a queue document with its POQ lists empty, the
\* post-restart one first.
EmptyPendingXml == [POQ |-> << <<>>, <<>> >>]

\* create_element("HardlinkFile", update_file.to_hardlink_dict()), lines 98-99.
HardlinkFile(update_file) ==
    [tag |-> "HardlinkFile", source |-> update_file.source,
     destination |-> update_file.destination]

\* craft_downgrade_xml, lines 87-102: the loop over the update files left,
\* poq_element being the first POQ list (line 89).
\* The loop without the test of line 94.
RECURSIVE CraftLoopNoSkip(_, _)
CraftLoopNoSkip(list, xml) ==
    IF list = <<>> THEN xml
    ELSE CraftLoopNoSkip(Tail(list),
             [xml EXCEPT !.POQ[1] = Append(@, HardlinkFile(Head(list)))])

RECURSIVE CraftLoop(_, _)
CraftLoop(list, xml) ==
    IF list = <<>> THEN xml                                                     \* line 102
    ELSE LET update_file == Head(list)
         IN  IF is_file_contents_equal(update_file.source, update_file.destination)
             THEN CraftLoop(Tail(list), xml)                                    \* line 96
             ELSE CraftLoop(Tail(list),
                      [xml EXCEPT !.POQ[1] = Append(@, HardlinkFile(update_file))])

craft_downgrade_xml(list) == CraftLoop(list, EmptyPendingXml)

\* parse_args, lines 24-48: the namespaces argparse hands back.  Exactly one
\* of --config-xml and --custom-pending-xml is given (the required, mutually
\* exclusive group); --restart-timeout needs --force-restart and defaults to
\* 10; every option is stored under its own name.
Namespaces ==
    { ns \in [config_xml : {None, Some("Config.xml")},
              custom_pending_xml : {None, Some("Pending.xml")},
              force_restart : BOOLEAN,
              restart_timeout : {10, 30},
              elevate : BOOLEAN,
              invisible : BOOLEAN,
              persistent : BOOLEAN,
              irreversible : BOOLEAN] :
        /\ (ns.config_xml = None) # (ns.custom_pending_xml = None)
        /\ ns.restart_timeout # 10 => ns.force_restart }

\* The machines a run with namespace ns is started on: the config document
\* (or none at that path) and the state of the component store when
\* --config-xml is given, the custom queue document there or not otherwise.
Disks(ns) ==
    IF ns.config_xml # None
    THEN [config_xml : {None} \cup {Some(c) : c \in Configs},
          custom_pending_xml : {FALSE}, store_ok : BOOLEAN]
    ELSE [config_xml : {None}, custom_pending_xml : BOOLEAN, store_ok : {TRUE}]

\* The lookup reading the attribute parse_args does store, config_xml.
GetConfigFileAsConfigXml(ns) == [found |-> TRUE, value |-> ns.config_xml]

\* args.config_file, lines 109, 110 and 114: the attribute is looked up in
\* the namespace, which raises AttributeError when it has none of that name.
GetConfigFile(ns) ==
    IF "config_file" \in DOMAIN ns
    THEN [found |-> TRUE, value |-> ns["config_file"]]
    ELSE [found |-> FALSE, value |-> None]

Abort(exception) ==
    /\ pc' = "aborted"
    /\ error' = exception

\* main, lines 106-107: init_logger() and args = parse_args().
MainStart ==
    /\ pc = "start"
    /\ parsed = None /\ crafted = None
    /\ \E ns \in Namespaces : \E d \in Disks(ns) :
           /\ args' = Some(ns)
           /\ disk' = Some(d)
    /\ pc' = "line109"
    /\ UNCHANGED <<update_files, downgrade_xml, downgrade_xml_path, storage, trace,
                   error, parsed, crafted>>
    /\ UNCHANGED <<expandVars, manifestVars>>

\* main, lines 109-144, one statement at a time.
MainStep ==
    /\ pc \notin {"idle", "start", "done", "aborted"}
    /\ UNCHANGED <<expandVars, manifestVars, disk, args, parsed, crafted>>
    /\ LET ns == args[1]
           d == disk[1]
           config_file == GetConfigFile(ns)
       IN
       CASE pc = "line109" ->
              /\ UNCHANGED <<update_files, downgrade_xml, downgrade_xml_path, storage, trace>>
              /\ IF ~config_file.found THEN Abort("AttributeError")
                 ELSE /\ pc' = IF config_file.value # None THEN "line110" ELSE "line120"
                      /\ UNCHANGED error
         [] pc = "line110" ->
              /\ UNCHANGED <<update_files, downgrade_xml, storage, trace>>
              /\ IF ~is_path_exists(d, config_file.value[1])
                 THEN Abort("Exception") /\ UNCHANGED downgrade_xml_path
                 ELSE /\ downgrade_xml_path' = Some(DOWNGRADE_XML_PATH)      \* line 113
                      /\ pc' = "line114"
                      /\ UNCHANGED error
         [] pc = "line114" ->
              LET result == parse_config_xml(d, d.config_xml[1])
              IN  /\ trace' = Append(trace, "parse_config_xml")
                  /\ UNCHANGED <<downgrade_xml, downgrade_xml_path, storage>>
                  /\ IF result.raised # "none"
                     THEN Abort(result.raised) /\ UNCHANGED update_files
                     ELSE /\ update_files' = Some(result.update_files)
                          /\ pc' = "line115"
                          /\ UNCHANGED error
         [] pc = "line115" ->
              LET result == retrieve_oldest_files_for_update_files(d, update_files[1])
              IN  /\ trace' = Append(trace, "retrieve_oldest_files_for_update_files")
                  /\ UNCHANGED <<downgrade_xml, downgrade_xml_path, storage>>
                  /\ IF result.raised # "none"
                     THEN Abort(result.raised) /\ UNCHANGED update_files
                     ELSE /\ update_files' = Some(result.update_files)
                          /\ pc' = "line116"
                          /\ UNCHANGED error
         [] pc = "line116" ->
              /\ downgrade_xml' = Some(craft_downgrade_xml(update_files[1]))
              /\ trace' = Append(trace, "craft_downgrade_xml")
              /\ pc' = "line117"
              /\ UNCHANGED <<update_files, downgrade_xml_path, storage, error>>
         [] pc = "line117" ->
              /\ storage' = storage \cup
                     {[path |-> downgrade_xml_path[1], document |-> downgrade_xml[1]]}
              /\ trace' = Append(trace, "write")
              /\ pc' = "line126"
              /\ UNCHANGED <<update_files, downgrade_xml, downgrade_xml_path, error>>
         [] pc = "line120" ->
              /\ UNCHANGED <<update_files, downgrade_xml, storage, trace>>
              /\ IF ~is_path_exists(d, ns.custom_pending_xml[1])
                 THEN Abort("Exception") /\ UNCHANGED downgrade_xml_path
                 ELSE /\ downgrade_xml_path' = ns.custom_pending_xml       \* line 123
                      /\ pc' = "line126"
                      /\ UNCHANGED error
         [] pc = "line126" ->
              /\ UNCHANGED <<update_files, downgrade_xml, downgrade_xml_path, storage, trace>>
              /\ IF ns.invisible \/ ns.persistent \/ ns.irreversible \/ ns.elevate
                 THEN Abort("NotImplementedError")                       \* 127, 131, 135, 139
                 ELSE pc' = "line141" /\ UNCHANGED error
         [] pc = "line141" ->
              /\ trace' = Append(trace, "pend_update")
              /\ pc' = "line143"
              /\ UNCHANGED <<update_files, downgrade_xml, downgrade_xml_path, storage, error>>
         [] pc = "line143" ->
              /\ trace' = IF ns.force_restart THEN Append(trace, "restart_system") ELSE trace
              /\ pc' = "done"
              /\ UNCHANGED <<update_files, downgrade_xml, downgrade_xml_path, storage, error>>

\* A direct call of parse_config_xml on a drawn config document.
ParseConfigXmlCall ==
    /\ pc = "start"
    /\ parsed = None /\ crafted = None
    /\ \E c \in Configs :
           LET d == [config_xml |-> Some(c), custom_pending_xml |-> FALSE, store_ok |-> TRUE]
           IN  parsed' = Some([config |-> c, result |-> parse_config_xml(d, c)])
    /\ UNCHANGED <<disk, pc, args, update_files, downgrade_xml, downgrade_xml_path,
                   storage, trace, error, crafted>>
    /\ UNCHANGED <<expandVars, manifestVars>>

\* A direct call of craft_downgrade_xml on a drawn list of UpdateFiles.
CraftDowngradeXmlCall ==
    /\ pc = "start"
    /\ parsed = None /\ crafted = None
    /\ \E list \in UpdateFileLists :
           crafted' = Some([update_files |-> list, xml |-> craft_downgrade_xml(list)])
    /\ UNCHANGED <<disk, pc, args, update_files, downgrade_xml, downgrade_xml_path,
                   storage, trace, error, parsed>>
    /\ UNCHANGED <<expandVars, manifestVars>>

MainInit ==
    /\ disk = None
    /\ pc = "start"
    /\ args = None
    /\ update_files = None
    /\ downgrade_xml = None
    /\ downgrade_xml_path = None
    /\ storage = {}
    /\ trace = <<>>
    /\ error = "none"
    /\ parsed = None
    /\ crafted = None

MainNext ==
    \/ MainStart
    \/ MainStep
    \/ ParseConfigXmlCall
    \/ CraftDowngradeXmlCall

MainIdle ==
    /\ disk = None
    /\ pc = "idle"
    /\ args = None
    /\ update_files = None
    /\ downgrade_xml = None
    /\ downgrade_xml_path = None
    /\ storage = {}
    /\ trace = <<>>
    /\ error = "none"
    /\ parsed = None
    /\ crafted = None

InitExpand == ExpandInit /\ ManifestIdle /\ MainIdle
SpecExpand == InitExpand /\ [][Expand]_vars

InitManifest == ExpandIdle /\ ManifestInit /\ MainIdle
SpecManifest == InitManifest /\ [][ManifestNext]_vars

InitMain == ExpandIdle /\ ManifestIdle /\ MainInit
SpecMain == InitMain /\ [][MainNext]_vars

(***************************************************************************)
(* Claims about expand_manifest_path_variables (SpecExpand).               *)
(***************************************************************************)
\* A token segment whose name, lower-cased, is a key of the table.
IsKnownToken(seg) ==
    /\ seg.tok
    /\ Len(seg.text) = 1
    /\ Lower(seg.text[1]) \in DOMAIN PACKAGE_VARIABLES

\* The argument with every known token replaced by its key's table value
\* and every other segment as it is.
Substituted(segs) ==
    Flatten([k \in 1..Len(segs) |->
                IF IsKnownToken(segs[k])
                THEN PACKAGE_VARIABLES[Lower(segs[k].text[1])]
                ELSE SegmentText(segs[k])])

\* C9 as stated: a call returns its argument with each known token replaced
\* by the table value and each unknown token unchanged (checked on arguments
\* made of tokens only, where the claim fixes the whole result), and the
\* table is not modified.
C9_TableValueInResult ==
    (expanded # None /\ \A k \in 1..Len(str_to_expand) : str_to_expand[k].tok)
        => /\ expanded[1] = Substituted(str_to_expand)
           /\ package_variables = PACKAGE_VARIABLES

\* C9 amended: a call returns the environment expansion (os.path.expandvars)
\* of its argument with each known token replaced by the table value and each
\* unknown token unchanged; the table is not modified.
C9_SubstitutedThenExpanded ==
    /\ package_variables = PACKAGE_VARIABLES
    /\ expanded # None =>
           expanded[1] = ExpandVars(Substituted(str_to_expand), environ)

\* A call happened on an argument holding a known token spelled with capitals,
\* an unknown token and literal text, in an environment that sets SystemRoot.
C9_Witness ==
    /\ expanded # None
    /\ "SystemRoot" \in DOMAIN environ
    /\ \E k \in 1..Len(str_to_expand) :
           IsKnownToken(str_to_expand[k]) /\ str_to_expand[k].text[1] = "Runtime.System32"
    /\ \E k \in 1..Len(str_to_expand) :
           str_to_expand[k].tok /\ str_to_expand[k].text = <<"bogus.var">>
    /\ \E k \in 1..Len(str_to_expand) : ~str_to_expand[k].tok

(***************************************************************************)
(* Claims about a Manifest instance (SpecManifest).                        *)
(***************************************************************************)
Returned(k) == log[k].raised = "none"
CallsOf(fn) == {k \in 1..Len(log) : log[k].fn = fn}

\* C2: the archive read, the delta decode, the document parse and the
\* file-list extraction each happen at most once on an instance, and every
\* call of get_manifest_files returns what the first one returned.
C2_IdempotentCaching ==
    /\ n_read <= 1
    /\ n_delta <= 1
    /\ n_parse <= 1
    /\ n_extract <= 1
    /\ \A i, j \in CallsOf("get_manifest_files") :
           (Returned(i) /\ Returned(j)) => log[i].value.files = log[j].value.files

\* C3: once patch application has failed on an instance, no later call
\* returns the raw buffer, nor a document or a file list.
C3_NoSilentFallback ==
    \A i, j \in 1..Len(log) :
        (i < j /\ log[i].raised = "DeltaError") =>
            /\ ~(log[j].fn = "get_manifest_buffer" /\ Returned(j)
                    /\ log[j].value.bytes = archive)
            /\ ~(log[j].fn \in {"get_manifest_xml", "get_manifest_files"} /\ Returned(j))

\* C6: a call of get_manifest_buffer on archived bytes that begin with the
\* marker returns only the output of the patch, and on bytes that do not
\* begin with it returns those bytes.
C6_DecoderSelection ==
    \A k \in CallsOf("get_manifest_buffer") :
        IF StartsWith(archive, DCM_HEADER)
        THEN Returned(k) => (delta_output.ok /\ log[k].value.bytes = delta_output.bytes)
        ELSE Returned(k) /\ log[k].value.bytes = archive

\* The paths of the declarations that carry both attributes, in document order.
DeclaredFiles(doc) ==
    LET both == SelectSeq(doc, LAMBDA e : e.destinationPath # None /\ e.name # None)
    IN  [k \in 1..Len(both) |->
            NormPath(expand_manifest_path_variables(
                         both[k].destinationPath[1], PACKAGE_VARIABLES, environ)
                     \o <<"\\", both[k].name[1]>>)]

\* C7: get_manifest_files returns, in document order, one path for exactly
\* the file declarations that carry both destinationPath and name; a
\* declaration missing either adds nothing, raises nothing and stops nothing.
C7_SkipMalformedEntries ==
    \A k \in CallsOf("get_manifest_files") :
        /\ Returned(k) => log[k].value.files = DeclaredFiles(xml_output.doc)
        /\ log[k].raised # "XmlElementAttributeNotFound"

\* get_manifest_files returned on a document whose first declaration lacks an
\* attribute and whose second carries both, or the other way round.
C7_Witness ==
    \E k \in CallsOf("get_manifest_files") :
        /\ Returned(k)
        /\ Len(xml_output.doc) >= 2
        /\ xml_output.doc[1].name = None
        /\ xml_output.doc[2].destinationPath # None /\ xml_output.doc[2].name # None
        /\ Len(log[k].value.files) = 1

\* C10: a call of get_manifest_buffer terminates by itself, on any archived
\* bytes: it never recurses until the interpreter's stack is exhausted.
C10_BoundedRecursion ==
    \A k \in CallsOf("get_manifest_buffer") : log[k].raised # "RecursionError"

(***************************************************************************)
(* Claims about windows_downdate.py (SpecMain).                            *)
(***************************************************************************)
ContentsDiffer(update_file) ==
    FileContents[update_file.source] # FileContents[update_file.destination]

\* C1: the entries craft_downgrade_xml appends to the post-restart queue are,
\* in input order, one entry per UpdateFile whose source and destination
\* contents differ, naming that source and destination, and none for a pair
\* with the same content.
C1_QueueIsDifferingSubsequence ==
    crafted # None =>
        LET differing == SelectSeq(crafted[1].update_files, ContentsDiffer)
            queue == crafted[1].xml.POQ[1]
        IN  /\ Len(queue) = Len(differing)
            /\ \A k \in 1..Len(queue) :
                   /\ queue[k].source = differing[k].source
                   /\ queue[k].destination = differing[k].destination
            /\ crafted[1].xml.POQ[2] = <<>>

\* craft_downgrade_xml was called on a pair with the same content followed by
\* a pair with differing content.
C1_Witness ==
    /\ crafted # None
    /\ Len(crafted[1].update_files) = 2
    /\ ~ContentsDiffer(crafted[1].update_files[1])
    /\ ContentsDiffer(crafted[1].update_files[2])
    /\ Len(crafted[1].xml.POQ[1]) = 1

\* The fatal conditions of a run: a reserved feature flag is requested, or the
\* config document names a destination that does not exist, or it has a
\* source to resolve and the component store fails to decode or owns no
\* version of that destination.
MissingDestination(c) ==
    \E k \in 1..Len(c) : c[k].destination \notin ExistingFiles
Unresolvable(d, c) ==
    \E k \in 1..Len(c) :
        /\ c[k].source \notin ExistingFiles
        /\ (~d.store_ok \/ c[k].destination \notin DOMAIN OldestInStore)
FatalCondition ==
    /\ args # None
    /\ \/ args[1].invisible \/ args[1].persistent \/ args[1].irreversible
       \/ /\ args[1].config_xml # None
          /\ disk[1].config_xml # None
          /\ \/ MissingDestination(disk[1].config_xml[1])
             \/ Unresolvable(disk[1], disk[1].config_xml[1])

HappyRun ==
    /\ args # None
    /\ args[1].config_xml # None
    /\ disk[1].config_xml # None
    /\ ~MissingDestination(disk[1].config_xml[1])
    /\ ~Unresolvable(disk[1], disk[1].config_xml[1])
    /\ ~(args[1].invisible \/ args[1].persistent \/ args[1].irreversible \/ args[1].elevate)

\* C5: such a run parses the config, resolves the sources, builds the queue
\* document, writes it and calls pend_update once, in this order, and calls
\* restart_system only after that and only under --force-restart.
C5_ConfigRunOrder ==
    (HappyRun /\ pc \in {"done", "aborted"}) =>
        /\ pc = "done"
        /\ trace = <<"parse_config_xml", "retrieve_oldest_files_for_update_files",
                     "craft_downgrade_xml", "write", "pend_update">>
                   \o (IF args[1].force_restart THEN <<"restart_system">> ELSE <<>>)

\* C8: parse_config_xml returns a list only if every request's destination
\* exists, and then one UpdateFile per request, each with an existing
\* destination; it raises and returns no UpdateFile if any destination does
\* not exist; the list main hands to the resolver and the queue builder holds
\* existing destinations only.
C8_DestinationsExist ==
    /\ parsed # None =>
           LET c == parsed[1].config
               result == parsed[1].result
           IN  /\ (result.raised = "none") <=> ~MissingDestination(c)
               /\ result.raised # "none" =>
                      (result.raised = "FileNotFoundError" /\ result.update_files = <<>>)
               /\ result.raised = "none" =>
                      /\ Len(result.update_files) = Len(c)
                      /\ \A k \in 1..Len(c) :
                             /\ result.update_files[k].destination = c[k].destination
                             /\ result.update_files[k].destination \in ExistingFiles
    /\ update_files # None =>
           \A k \in 1..Len(update_files[1]) :
               update_files[1][k].destination \in ExistingFiles

\* parse_config_xml was called on a config document whose first destination
\* exists and whose second does not, and raised.
C8_Witness ==
    /\ parsed # None
    /\ Len(parsed[1].config) = 2
    /\ parsed[1].config[1].destination \in ExistingFiles
    /\ parsed[1].config[2].destination \notin ExistingFiles
    /\ parsed[1].result.raised = "FileNotFoundError"

====
